---------------------------- MODULE Spec2Model ----------------------------
(***************************************************************************)
(* A model of the invoice data extraction backend:                         *)
(*   backend/app/utils/currency.py          the currency catalog, detector,*)
(*                                          converter, formatter,          *)
(*                                          normalizer and summarizer      *)
(*   backend/app/services/invoice_service.py the per-file pipeline and the *)
(*                                          batch loop                     *)
(*                                                                         *)
(* Numbers.  An amount is an integer number of thousandths of a currency   *)
(* unit (1234 is 1.234), so that amounts with more than two decimals       *)
(* exist; a rate and a confidence are integer numbers of hundredths        *)
(* (92 is 0.92).  Arithmetic is exact; Python's round(x, 2) on a binary    *)
(* double goes either way at an exact decimal tie (round(2.675, 2) is      *)
(* 2.67), so every rounding takes the tie's direction as an argument and   *)
(* the actions draw it.                                                    *)
(*                                                                         *)
(* Text is a TLA+ string, one character per position.                      *)
(***************************************************************************)
EXTENDS Integers, Sequences, FiniteSets, TLC

VARIABLES
    EXCHANGE_RATES,   \* currency.py: the module-level rate table (mutable)
    call,             \* the library call in progress or just returned
    pdf_file_paths,   \* process_invoices: its argument, each path with the
                      \* file it names and the answer the extractor gets
    position,         \* process_invoices: the place of the loop in the list
    batch_invoices,   \* process_invoices: the local list invoices
    batch_errors,     \* process_invoices: the local list errors
    outcome,          \* process_invoices: not called, running, returned
                      \* or raised
    temp_uploads,     \* the directory temp_uploads: the file at each path
    requests          \* invoice_routes.py: each POST /api/invoices/process,
                      \* with the locals of its handler

batch == <<pdf_file_paths, position, batch_invoices, batch_errors, outcome>>

route == <<temp_uploads, requests>>

vars == <<EXCHANGE_RATES, call, batch, route>>

-----------------------------------------------------------------------------
(* Bounds of the model *)

\* The rate table after the module is imported (currency.py 54-71), in
\* hundredths of a unit per US dollar.
BaselineRates ==
    [USD |-> 100, EUR |-> 92, GBP |-> 79, JPY |-> 14950, CAD |-> 136,
     AUD |-> 153, CHF |-> 89, CNY |-> 724, INR |-> 8312, MXN |-> 1705,
     BRL |-> 497, RUB |-> 9850, ZAR |-> 1850, NOK |-> 1048, SEK |-> 1035,
     NZD |-> 162]

\* Codes and (positive) rates that update_exchange_rates is called with.
UpdCodes == {"USD", "EUR", "XXX"}
UpdRates == {50, 200}

\* Amounts the converter is called with, in thousandths.
Amounts == {-1000, 0, 5, 250, 1000, 1234, 50000}

\* A batch the summarizer is given holds at most MaxBatch invoices, each with
\* or without a currency and a total.
MaxBatch == 2
BatchCodes == {"USD", "EUR", "XXX"}
BatchAmounts == {1000, 1234, 100000, 6000000}

\* process_invoices is given at most MaxFiles files.
MaxFiles == 3

\* The requests in flight at the same time, and the files of an upload: at
\* most MaxUploads, under these names.
Requests == {1, 2}
MaxUploads == 2
UploadNames == {"a.pdf", "b.PDF", "notes.txt"}

\* A text the detector is given is made of at most MaxPieces of these pieces.
MaxPieces == 3
Pieces ==
    {"$", " ", "Euro", "€", "dollar", "Pound", "yen", "kr", "R", "C", "NZ",
     "Acme", "us", "₽"}

-----------------------------------------------------------------------------
(* Python built-ins *)

\* The lower case of the letters that have one.
LowerOf ==
    [A |-> "a", B |-> "b", C |-> "c", D |-> "d", E |-> "e", F |-> "f", G |-> "g",
     H |-> "h", I |-> "i", J |-> "j", K |-> "k", L |-> "l", M |-> "m", N |-> "n",
     O |-> "o", P |-> "p", Q |-> "q", R |-> "r", S |-> "s", T |-> "t", U |-> "u",
     V |-> "v", W |-> "w", X |-> "x", Y |-> "y", Z |-> "z"]

\* str.lower() of one character.
LowerChar(ch) == IF ch \in DOMAIN LowerOf THEN LowerOf[ch] ELSE ch

RECURSIVE lower(_)
\* str.lower()
lower(s) ==
    IF s = "" THEN ""
    ELSE LowerChar(SubSeq(s, 1, 1)) \o lower(SubSeq(s, 2, Len(s)))

\* str.upper() of one character.
UpperChar(ch) ==
    IF \E u \in DOMAIN LowerOf : LowerOf[u] = ch
    THEN CHOOSE u \in DOMAIN LowerOf : LowerOf[u] = ch
    ELSE ch

RECURSIVE upper(_)
\* str.upper()
upper(s) ==
    IF s = "" THEN ""
    ELSE UpperChar(SubSeq(s, 1, 1)) \o upper(SubSeq(s, 2, Len(s)))

\* What str.isspace() holds of, and \s matches.
Whitespace == {" ", "\t", "\n", "\r", "\f"}

RECURSIVE lstrip(_)
lstrip(s) ==
    IF s # "" /\ SubSeq(s, 1, 1) \in Whitespace
    THEN lstrip(SubSeq(s, 2, Len(s))) ELSE s

RECURSIVE rstrip(_)
rstrip(s) ==
    IF s # "" /\ SubSeq(s, Len(s), Len(s)) \in Whitespace
    THEN rstrip(SubSeq(s, 1, Len(s) - 1)) ELSE s

\* str.strip()
strip(s) == rstrip(lstrip(s))

RECURSIVE basename(_)
\* os.path.basename: what follows the last "/"
basename(path) ==
    IF \E i \in 1..Len(path) : SubSeq(path, i, i) = "/"
    THEN basename(SubSeq(path,
                         1 + (CHOOSE i \in 1..Len(path) :
                                 SubSeq(path, i, i) = "/"),
                         Len(path)))
    ELSE path

\* round(num / den, 2) for den > 0, on thousandths: the nearest multiple of
\* 10; at an exact tie the higher one when tie_up, else the lower one.
round2(num, den, tie_up) ==
    LET D == 10 * den
        k == num \div D
        r == num % D
    IN  10 * (IF 2 * r > D \/ (2 * r = D /\ tie_up) THEN k + 1 ELSE k)

\* dict.get(key, default)
Get(d, key, default) == IF key \in DOMAIN d THEN d[key] ELSE default

\* dict.update(other): the entries of other overwrite or extend d.
DictUpdate(d, other) ==
    [k \in DOMAIN d \cup DOMAIN other |->
        IF k \in DOMAIN other THEN other[k] ELSE d[k]]

-----------------------------------------------------------------------------
(* currency.py: symbol lookup and conversion *)

SYMBOL_OF ==
    [USD |-> "$", EUR |-> "€", GBP |-> "£", JPY |-> "¥", CAD |-> "C$",
     AUD |-> "A$", CHF |-> "CHF", CNY |-> "¥", INR |-> "₹", MXN |-> "$",
     BRL |-> "R$", RUB |-> "₽", ZAR |-> "R", NOK |-> "kr", SEK |-> "kr",
     NZD |-> "NZ$"]

get_currency_symbol(currency_code) ==
    Get(SYMBOL_OF, currency_code, currency_code)

\* A converter that looks an unknown code up as if its rate were 1.0.
convert_currency_default_rate(amount, from_currency, to_currency, tie_up) ==
    IF from_currency = to_currency THEN amount
    ELSE round2(amount * Get(EXCHANGE_RATES, to_currency, 100),
                IF from_currency # "USD"
                THEN Get(EXCHANGE_RATES, from_currency, 100) ELSE 100,
                tie_up)

\* A converter that upper-cases the codes before it looks them up.
convert_currency_any_case(amount, from_currency, to_currency, tie_up) ==
    LET f == upper(from_currency)
        t == upper(to_currency)
    IN  IF f = t THEN amount
        ELSE IF f \notin DOMAIN EXCHANGE_RATES \/ t \notin DOMAIN EXCHANGE_RATES
        THEN amount
        ELSE round2(amount * EXCHANGE_RATES[t],
                    IF f # "USD" THEN EXCHANGE_RATES[f] ELSE 100, tie_up)

\* A converter that cuts the result to 2 decimals instead of rounding it.
convert_currency_truncating(amount, from_currency, to_currency, tie_up) ==
    IF from_currency = to_currency THEN amount
    ELSE IF from_currency \notin DOMAIN EXCHANGE_RATES
            \/ to_currency \notin DOMAIN EXCHANGE_RATES
    THEN amount
    ELSE 10 * ((amount * EXCHANGE_RATES[to_currency])
               \div (10 * (IF from_currency # "USD"
                           THEN EXCHANGE_RATES[from_currency] ELSE 100)))

\* A converter without the shortcut for equal codes (lines 175-176).
convert_currency_no_shortcut(amount, from_currency, to_currency, tie_up) ==
    IF from_currency \notin DOMAIN EXCHANGE_RATES
            \/ to_currency \notin DOMAIN EXCHANGE_RATES
    THEN amount
    ELSE round2(amount * EXCHANGE_RATES[to_currency],
                IF from_currency # "USD"
                THEN EXCHANGE_RATES[from_currency] ELSE 100,
                tie_up)

convert_currency(amount, from_currency, to_currency, tie_up) ==
    IF from_currency = to_currency THEN amount
    ELSE IF from_currency \notin DOMAIN EXCHANGE_RATES
            \/ to_currency \notin DOMAIN EXCHANGE_RATES
    THEN amount
    ELSE LET from_rate == EXCHANGE_RATES[from_currency]
             to_rate   == EXCHANGE_RATES[to_currency]
         IN  \* amount_in_usd = amount / from_rate if from != 'USD' else amount
             round2(amount * to_rate,
                    IF from_currency # "USD" THEN from_rate ELSE 100,
                    tie_up)

-----------------------------------------------------------------------------
(* currency.py: the detection tables and detect_currency *)

\* A dict literal or a list of pairs, in source order.
Pair(k, v) == [key |-> k, value |-> v]

\* The items of the dict a literal builds, in iteration order: a key keeps
\* the place of its first occurrence and takes the value of its last one.
dict_items(pairs) ==
    LET last(i) == CHOOSE j \in i..Len(pairs) :
                      /\ pairs[j].key = pairs[i].key
                      /\ \A m \in (j + 1)..Len(pairs) : pairs[m].key # pairs[i].key
        F[i \in 0..Len(pairs)] ==
            IF i = 0 THEN <<>>
            ELSE IF \E j \in 1..(i - 1) : pairs[j].key = pairs[i].key
            THEN F[i - 1]
            ELSE Append(F[i - 1], Pair(pairs[i].key, pairs[last(i)].value))
    IN  F[Len(pairs)]

CURRENCY_SYMBOLS ==
    dict_items(<<
        Pair("$", "USD"), Pair("€", "EUR"), Pair("£", "GBP"), Pair("¥", "JPY"),
        Pair("₹", "INR"), Pair("C$", "CAD"), Pair("A$", "AUD"),
        Pair("NZ$", "NZD"), Pair("kr", "SEK"), Pair("CHF", "CHF"),
        Pair("R$", "BRL"), Pair("₽", "RUB"), Pair("R", "ZAR"),
        Pair("kr", "NOK") >>)

CURRENCY_NAMES ==
    dict_items(<<
        Pair("dollar", "USD"), Pair("usd", "USD"), Pair("us dollar", "USD"),
        Pair("euro", "EUR"), Pair("eur", "EUR"), Pair("pound", "GBP"),
        Pair("gbp", "GBP"), Pair("british pound", "GBP"), Pair("yen", "JPY"),
        Pair("jpy", "JPY"), Pair("japanese yen", "JPY"),
        Pair("canadian dollar", "CAD"), Pair("cad", "CAD"),
        Pair("australian dollar", "AUD"), Pair("aud", "AUD"),
        Pair("swiss franc", "CHF"), Pair("chf", "CHF"), Pair("yuan", "CNY"),
        Pair("cny", "CNY"), Pair("rupee", "INR"), Pair("inr", "INR") >>)

\* One alternative of a pattern: a literal, and whether it carries the
\* lookahead (?!\s).
Lit(s) == [lit |-> s, not_before_space |-> FALSE]
LitNotBeforeSpace(s) == [lit |-> s, not_before_space |-> TRUE]

\* The key of a pair is the list of the pattern's alternatives.
CURRENCY_PATTERNS == <<
    Pair(<<Lit("USD"), LitNotBeforeSpace("$"), Lit("US$")>>, "USD"),
    Pair(<<Lit("EUR"), Lit("€"), Lit("Euro")>>, "EUR"),
    Pair(<<Lit("GBP"), Lit("£"), Lit("British Pound")>>, "GBP"),
    Pair(<<Lit("JPY"), Lit("¥"), Lit("Japanese Yen")>>, "JPY"),
    Pair(<<Lit("CAD"), Lit("C$"), Lit("Canadian")>>, "CAD"),
    Pair(<<Lit("AUD"), Lit("A$"), Lit("Australian")>>, "AUD"),
    Pair(<<Lit("CHF"), Lit("Swiss Franc")>>, "CHF"),
    Pair(<<Lit("CNY"), Lit("Yuan"), Lit("RMB")>>, "CNY"),
    Pair(<<Lit("INR"), Lit("₹"), Lit("Rupee")>>, "INR"),
    Pair(<<Lit("MXN"), Lit("Mexican Peso")>>, "MXN"),
    Pair(<<Lit("BRL"), Lit("R$"), Lit("Brazilian")>>, "BRL"),
    Pair(<<Lit("RUB"), Lit("₽"), Lit("Russian")>>, "RUB"),
    Pair(<<Lit("ZAR"), Lit("South African")>>, "ZAR"),
    Pair(<<Lit("NOK"), Lit("Norwegian Krone")>>, "NOK"),
    Pair(<<Lit("SEK"), Lit("Swedish Krona")>>, "SEK"),
    Pair(<<Lit("NZD"), Lit("New Zealand")>>, "NZD") >>

\* s in text
Contains(text, s) ==
    \E i \in 1..(Len(text) - Len(s) + 1) : SubSeq(text, i, i + Len(s) - 1) = s

\* The alternative, lower-cased to lit, matches at position i of the
\* lower-cased text (re.IGNORECASE).
MatchesAt(lit, not_before_space, text_lower, i) ==
    LET n == Len(lit)
    IN  /\ i + n - 1 <= Len(text_lower)
        /\ SubSeq(text_lower, i, i + n - 1) = lit
        /\ not_before_space =>
              \/ i + n > Len(text_lower)
              \/ SubSeq(text_lower, i + n, i + n) \notin Whitespace

\* re.search(pattern, text, re.IGNORECASE) finds a match.
re_search(alts, text) ==
    LET text_lower == lower(text)
    IN  \E a \in 1..Len(alts) :
            LET lit == lower(alts[a].lit)
            IN  \E i \in 1..Len(text) :
                    MatchesAt(lit, alts[a].not_before_space, text_lower, i)

\* The first index of 1..n that has P, or 0.
FirstIndex(n, P(_)) ==
    IF \E i \in 1..n : P(i)
    THEN CHOOSE i \in 1..n : P(i) /\ \A j \in 1..(i - 1) : ~P(j)
    ELSE 0

Detected(code, confidence) == [code |-> code, confidence |-> confidence]

\* A detector that scans the symbol map before the name map.
detect_currency_symbols_first(text) ==
    IF text = "" THEN Detected("USD", 50)
    ELSE
    LET by_pattern(i) == re_search(CURRENCY_PATTERNS[i].key, text)
        by_name(i)    == Contains(lower(text), CURRENCY_NAMES[i].key)
        by_symbol(i)  == Contains(text, CURRENCY_SYMBOLS[i].key)
        p == FirstIndex(Len(CURRENCY_PATTERNS), by_pattern)
        n == FirstIndex(Len(CURRENCY_NAMES), by_name)
        s == FirstIndex(Len(CURRENCY_SYMBOLS), by_symbol)
    IN  IF p # 0 THEN Detected(CURRENCY_PATTERNS[p].value, 90)
        ELSE IF s # 0 THEN Detected(CURRENCY_SYMBOLS[s].value, 88)
        ELSE IF n # 0 THEN Detected(CURRENCY_NAMES[n].value, 85)
        ELSE Detected("USD", 50)

detect_currency(text) ==
    IF text = "" THEN Detected("USD", 50)
    ELSE
    LET text_lower == lower(text)
        by_pattern(i) == re_search(CURRENCY_PATTERNS[i].key, text)
        by_name(i)    == Contains(text_lower, CURRENCY_NAMES[i].key)
        by_symbol(i)  == Contains(text, CURRENCY_SYMBOLS[i].key)
        p == FirstIndex(Len(CURRENCY_PATTERNS), by_pattern)
        n == FirstIndex(Len(CURRENCY_NAMES), by_name)
        s == FirstIndex(Len(CURRENCY_SYMBOLS), by_symbol)
    IN  IF p # 0 THEN Detected(CURRENCY_PATTERNS[p].value, 90)
        ELSE IF n # 0 THEN Detected(CURRENCY_NAMES[n].value, 85)
        ELSE IF s # 0 THEN Detected(CURRENCY_SYMBOLS[s].value, 88)
        ELSE Detected("USD", 50)

-----------------------------------------------------------------------------
(* currency.py: get_multi_currency_summary *)

\* {}
EmptyDict == [k \in {} |-> 0]

\* d[key] = value, for a key d may not hold yet
DictSet(d, key, value) ==
    [k \in DOMAIN d \cup {key} |-> IF k = key THEN value ELSE d[k]]

\* The body of the loop over the invoices (lines 316-326); order is the
\* insertion order of the keys of totals_by_currency.
accumulate(acc, invoice) ==
    LET currency == Get(invoice, "currency", "USD")
        amount   == Get(invoice, "total_amount", 0)
        fresh    == currency \notin DOMAIN acc.totals_by_currency
        total    == IF fresh THEN 0 ELSE acc.totals_by_currency[currency]
        entry    == IF fresh THEN [count |-> 0, total |-> 0, average |-> 0]
                    ELSE acc.currency_breakdown[currency]
    IN  [totals_by_currency |->
            DictSet(acc.totals_by_currency, currency, total + amount),
         currency_breakdown |->
            DictSet(acc.currency_breakdown, currency,
                    [count |-> entry.count + 1,
                     total |-> entry.total + amount,
                     average |-> entry.average]),
         order |-> IF fresh THEN Append(acc.order, currency) ELSE acc.order]

\* A grand total that adds the totals up without converting them.
usd_total_unconverted(totals_by_currency, order, tie_up) ==
    LET F[i \in 0..Len(order)] ==
            IF i = 0 THEN 0 ELSE F[i - 1] + totals_by_currency[order[i]]
    IN  F[Len(order)]

\* The loop over totals_by_currency.items() (lines 328-330).
usd_total(totals_by_currency, order, tie_up) ==
    LET F[i \in 0..Len(order)] ==
            IF i = 0 THEN 0
            ELSE F[i - 1] + convert_currency(totals_by_currency[order[i]],
                                             order[i], "USD", tie_up)
    IN  F[Len(order)]

\* A breakdown entry that divides by the number of invoices of the batch.
with_average_over_batch(entry, n_invoices, tie_up) ==
    [entry EXCEPT !.average = round2(entry.total, n_invoices, tie_up)]

\* The body of the loop over currency_breakdown (lines 332-335).
with_average(entry, n_invoices, tie_up) ==
    [entry EXCEPT !.average =
        IF entry.count > 0 THEN round2(entry.total, entry.count, tie_up) ELSE 0]

get_multi_currency_summary(invoices, tie_up) ==
    IF invoices = <<>>
    THEN [total_by_currency |-> EmptyDict,
          total_in_usd |-> 0,
          currency_breakdown |-> EmptyDict]
    ELSE
    LET loop[i \in 0..Len(invoices)] ==
            IF i = 0
            THEN [totals_by_currency |-> EmptyDict,
                  currency_breakdown |-> EmptyDict,
                  order |-> <<>>]
            ELSE accumulate(loop[i - 1], invoices[i])
        done == loop[Len(invoices)]
        total_in_usd ==
            usd_total(done.totals_by_currency, done.order, tie_up)
    IN  [total_by_currency |->
            [c \in DOMAIN done.totals_by_currency |->
                round2(done.totals_by_currency[c], 1, tie_up)],
         total_in_usd |-> round2(total_in_usd, 1, tie_up),
         currency_breakdown |->
            [c \in DOMAIN done.currency_breakdown |->
                with_average(done.currency_breakdown[c], Len(invoices),
                             tie_up)],
         currencies_detected |-> done.order]

-----------------------------------------------------------------------------
(* currency.py: format_currency and normalize_currency_data *)

\* The string format_currency builds, by its parts: the symbol, then the
\* amount with 2 decimals (hundredths, in thousandths), with thousands
\* separators when grouped.
format_currency(amount, currency_code, tie_up) ==
    [symbol |-> get_currency_symbol(currency_code),
     grouped |-> amount >= 1000 * 1000,
     hundredths |-> round2(amount, 1, tie_up)]

\* A loop body that stores the cost in USD in place of the cost.
normalize_item_converting_cost(item, detected_currency, tie_up) ==
    IF "cost" \in DOMAIN item
    THEN DictSet(DictSet(item, "cost_formatted",
                         format_currency(item.cost, detected_currency, tie_up)),
                 "cost",
                 convert_currency(item.cost, detected_currency, "USD", tie_up))
    ELSE item

\* A loop body that takes the cost of an item without one to be 0.
normalize_item_default_cost(item, detected_currency, tie_up) ==
    LET cost == Get(item, "cost", 0)
    IN  DictSet(DictSet(item, "cost_formatted",
                        format_currency(cost, detected_currency, tie_up)),
                "cost_usd",
                convert_currency(cost, detected_currency, "USD", tie_up))

\* The loop body over invoice_data['line_items'] (lines 288-291).
normalize_item(item, detected_currency, tie_up) ==
    IF "cost" \in DOMAIN item
    THEN DictSet(DictSet(item, "cost_formatted",
                         format_currency(item.cost, detected_currency, tie_up)),
                 "cost_usd",
                 convert_currency(item.cost, detected_currency, "USD", tie_up))
    ELSE item

RECURSIVE descriptions(_)
\* The descriptions of the line items, each after a space.
descriptions(line_items) ==
    IF line_items = <<>> THEN ""
    ELSE " " \o Get(Head(line_items), "description", "")
             \o descriptions(Tail(line_items))

\* A text to detect the currency in that also holds the line items.
join_invoice_text_and_items(invoice_data) ==
    Get(invoice_data, "vendor_name", "") \o " "
        \o Get(invoice_data, "invoice_number", "") \o " "
        \o Get(invoice_data, "invoice_date", "")
        \o descriptions(Get(invoice_data, "line_items", <<>>))

\* The text the currency is detected in (lines 264-268).
join_invoice_text(invoice_data) ==
    Get(invoice_data, "vendor_name", "") \o " "
        \o Get(invoice_data, "invoice_number", "") \o " "
        \o Get(invoice_data, "invoice_date", "")

normalize_currency_data(invoice_data, tie_up) ==
    LET invoice_text == join_invoice_text(invoice_data)
        detected == detect_currency(invoice_text)
        d1 == DictSet(invoice_data, "currency", detected.code)
        d2 == DictSet(d1, "currency_confidence", detected.confidence)
        d3 == DictSet(d2, "currency_symbol", get_currency_symbol(detected.code))
        d4 == IF "total_amount" \in DOMAIN invoice_data
              THEN DictSet(
                     DictSet(d3, "total_amount_formatted",
                             format_currency(invoice_data.total_amount,
                                             detected.code, tie_up)),
                     "total_amount_usd",
                     convert_currency(invoice_data.total_amount,
                                      detected.code, "USD", tie_up))
              ELSE d3
    IN  IF "line_items" \in DOMAIN invoice_data
        THEN DictSet(d4, "line_items",
                     [i \in 1..Len(invoice_data.line_items) |->
                        normalize_item(invoice_data.line_items[i],
                                       detected.code, tie_up)])
        ELSE d4

-----------------------------------------------------------------------------
(* pdf_handler.py, openai_service.py, excel_generator.py and
   invoice_service.py: the pipeline of one file, and the batch *)

\* What a call gives: a value, or the exception it raises.
Ok(value) == [ok |-> TRUE, value |-> value]
Raise(error) == [ok |-> FALSE, error |-> error]

\* A JSON value that float() accepts, and one it does not.
Number(v) == [numeric |-> TRUE, value |-> v]
NotANumber == [numeric |-> FALSE, value |-> 0]

\* validate_pdf: PdfReader can open the file.
validate_pdf(file) == file.valid

\* extract_text_from_pdf
extract_text_from_pdf(file) ==
    IF file.pages = 0 THEN Raise("PDF file is empty")
    ELSE IF strip(file.text) = ""
    THEN Raise("Could not extract text from PDF. The file might be image-based.")
    ELSE Ok(file.text)

\* The cleaned line items (lines 119-127): an item whose cost float() does
\* not accept is dropped, the others keep a stripped description and a cost.
RECURSIVE cleaned_items(_)
cleaned_items(line_items) ==
    IF line_items = <<>> THEN <<>>
    ELSE LET item == Head(line_items)
             cost == Get(item, "cost", Number(0))
         IN  IF cost.numeric
             THEN <<[description |-> strip(Get(item, "description", "")),
                     cost |-> cost.value]>>
                      \o cleaned_items(Tail(line_items))
             ELSE cleaned_items(Tail(line_items))

\* InvoiceExtractor._parse_response on the model's answer
parse_response(response) ==
    IF ~response.json THEN Raise("No JSON found in response")
    ELSE
    LET data == response.data
        total == Get(data, "total_amount", Number(0))
        d1 == DictSet(data, "vendor_name", strip(Get(data, "vendor_name", "")))
        d2 == DictSet(d1, "invoice_number",
                      strip(Get(data, "invoice_number", "")))
        d3 == DictSet(d2, "invoice_date", strip(Get(data, "invoice_date", "")))
        d4 == DictSet(d3, "total_amount",
                      IF total.numeric THEN total.value ELSE 0)
    IN  Ok(DictSet(d4, "line_items",
                   cleaned_items(Get(data, "line_items", <<>>))))

\* InvoiceExtractor.extract_invoice_data: the API call fails, or its answer
\* is parsed.
extract_invoice_data(file) ==
    IF file.response.api_error THEN Raise("Connection error.")
    ELSE parse_response(file.response)

FLAGGED_AMOUNT_THRESHOLD == 5000 * 1000

\* A flag that is also set at the threshold itself.
flag_at_threshold(invoice_data) ==
    LET comparison_amount ==
            Get(invoice_data, "total_amount_usd",
                Get(invoice_data, "total_amount", 0))
    IN  DictSet(invoice_data, "flagged",
                comparison_amount >= FLAGGED_AMOUNT_THRESHOLD)

\* Lines 86-87 of _process_single_invoice.
flag(invoice_data) ==
    LET comparison_amount ==
            Get(invoice_data, "total_amount_usd",
                Get(invoice_data, "total_amount", 0))
    IN  DictSet(invoice_data, "flagged",
                comparison_amount > FLAGGED_AMOUNT_THRESHOLD)

\* InvoiceProcessingService._process_single_invoice
process_single_invoice(file, tie_up) ==
    IF ~validate_pdf(file) THEN Raise("Invalid PDF file: " \o file.path)
    ELSE
    LET pdf_text == extract_text_from_pdf(file)
    IN  IF ~pdf_text.ok THEN pdf_text
        ELSE IF strip(pdf_text.value) = ""
        THEN Raise("Could not extract readable text from PDF")
        ELSE
        LET invoice_data == extract_invoice_data(file)
        IN  IF ~invoice_data.ok THEN invoice_data
            ELSE Ok(flag(normalize_currency_data(invoice_data.value, tie_up)))

\* ExcelGenerator.get_summary_data
get_summary_data(invoice_list, tie_up) ==
    LET total[i \in 0..Len(invoice_list)] ==
            IF i = 0 THEN 0
            ELSE total[i - 1] + Get(invoice_list[i], "total_amount", 0)
        flagged_places ==
            {i \in 1..Len(invoice_list) : Get(invoice_list[i], "flagged", FALSE)}
    IN  [total_invoices_processed |-> Len(invoice_list),
         total_amount |-> round2(total[Len(invoice_list)], 1, tie_up),
         flagged_invoices_count |-> Cardinality(flagged_places)]

-----------------------------------------------------------------------------
(* The calls *)

Idle == [op |-> "idle"]

\* The states of a call of process_invoices.
NotCalled == [state |-> "not called"]
Running == [state |-> "running"]
Returned(invoice_list, summary) ==
    [state |-> "returned", invoices |-> invoice_list, summary |-> summary]
Raised(error) == [state |-> "raised", error |-> error]

\* None, and a value that is not None.
None == [none |-> TRUE]
Some(value) == [none |-> FALSE, value |-> value]

\* Every code the table holds, its lower-case spelling, and a code no table has.
ArgCodes ==
    DOMAIN BaselineRates \cup {lower(c) : c \in DOMAIN BaselineRates}
        \cup {"XXX"}

\* An update that replaces the table by new_rates.
update_exchange_rates_replacing(new_rates) ==
    /\ call.op = "idle"
    /\ EXCHANGE_RATES' = new_rates
    /\ UNCHANGED <<call, batch, route>>

\* update_exchange_rates(new_rates): EXCHANGE_RATES.update(new_rates)
update_exchange_rates(new_rates) ==
    /\ call.op = "idle"
    /\ EXCHANGE_RATES' = DictUpdate(EXCHANGE_RATES, new_rates)
    /\ UNCHANGED <<call, batch, route>>

UpdateRates ==
    \E codes \in SUBSET UpdCodes : \E new_rates \in [codes -> UpdRates] :
        update_exchange_rates(new_rates)

\* r = convert_currency(amount, from_currency, to_currency)
CallConvert ==
    /\ call.op = "idle"
    /\ \E amount \in Amounts, from_currency \in ArgCodes,
          to_currency \in ArgCodes, tie_up \in BOOLEAN :
        call' = [op |-> "convert", amount |-> amount,
                 from_currency |-> from_currency, to_currency |-> to_currency,
                 result |-> convert_currency(amount, from_currency,
                                             to_currency, tie_up)]
    /\ UNCHANGED <<EXCHANGE_RATES, batch, route>>

\* convert_currency(r, to_currency, from_currency) on the value r that
\* convert_currency(amount, from_currency, to_currency) just returned
CallConvertBack ==
    /\ call.op = "convert"
    /\ \E tie_up \in BOOLEAN :
        call' = [op |-> "roundtrip", amount |-> call.amount,
                 from_currency |-> call.from_currency,
                 to_currency |-> call.to_currency,
                 there |-> call.result,
                 result |-> convert_currency(call.result, call.to_currency,
                                             call.from_currency, tie_up)]
    /\ UNCHANGED <<EXCHANGE_RATES, batch, route>>

\* get_currency_symbol(currency_code)
CallSymbol ==
    /\ call.op = "idle"
    /\ \E currency_code \in ArgCodes :
        call' = [op |-> "symbol", currency_code |-> currency_code,
                 result |-> get_currency_symbol(currency_code)]
    /\ UNCHANGED <<EXCHANGE_RATES, batch, route>>

RECURSIVE TextsOf(_)
TextsOf(n) ==
    IF n = 0 THEN {""}
    ELSE LET shorter == TextsOf(n - 1)
         IN  shorter \cup {t \o p : t \in shorter, p \in Pieces}

Texts == TextsOf(MaxPieces)

\* detect_currency(text)
CallDetect ==
    /\ call.op = "idle"
    /\ \E text \in Texts :
        call' = [op |-> "detect", text |-> text,
                 result |-> detect_currency(text)]
    /\ UNCHANGED <<EXCHANGE_RATES, batch, route>>

BatchInvoices ==
    {EmptyDict}
    \cup {[currency |-> c] : c \in BatchCodes}
    \cup {[total_amount |-> a] : a \in BatchAmounts}
    \cup {[currency |-> c, total_amount |-> a] :
             c \in BatchCodes, a \in BatchAmounts}

Batches == UNION {[1..n -> BatchInvoices] : n \in 0..MaxBatch}

\* get_multi_currency_summary(invoices)
CallSummary ==
    /\ call.op = "idle"
    /\ \E invoices \in Batches, tie_up \in BOOLEAN :
        call' = [op |-> "summary", invoices |-> invoices, tie_up |-> tie_up,
                 result |-> get_multi_currency_summary(invoices, tie_up)]
    /\ UNCHANGED <<EXCHANGE_RATES, batch, route>>

\* The records the normalizer is given: each of the five fields it reads is
\* there or not, a line item has a cost or not, and a record may hold other
\* keys, those of an earlier normalization among them.
NormalizeInputs ==
    LET vendor_part ==
            {EmptyDict, [vendor_name |-> "Euro GmbH"]}
        number_part == {EmptyDict, [invoice_number |-> "CAD-7"]}
        date_part == {EmptyDict, [invoice_date |-> "2024-03-01"]}
        total_part == {EmptyDict, [total_amount |-> 1234]}
        items_part ==
            {EmptyDict,
             [line_items |-> <<>>],
             [line_items |-> <<[description |-> "Gift", cost |-> 0],
                               [description |-> "£ duty"],
                               [description |-> "Yen fee", cost |-> 1234]>>]}
        other_part ==
            {EmptyDict,
             [po_number |-> "PO-1", currency |-> "GBP",
              total_amount_usd |-> 999000]}
    IN  {DictUpdate(DictUpdate(DictUpdate(DictUpdate(DictUpdate(v, n), d), t),
                               i), o) :
           v \in vendor_part, n \in number_part, d \in date_part,
           t \in total_part, i \in items_part, o \in other_part}

\* normalize_currency_data(invoice_data)
CallNormalize ==
    /\ call.op = "idle"
    /\ \E invoice_data \in NormalizeInputs, tie_up \in BOOLEAN :
        call' = [op |-> "normalize", invoice_data |-> invoice_data,
                 tie_up |-> tie_up,
                 result |-> normalize_currency_data(invoice_data, tie_up)]
    /\ UNCHANGED <<EXCHANGE_RATES, batch, route>>

\* normalize_currency_data on a second record, after a first
CallNormalizeAgain ==
    /\ call.op = "normalize"
    /\ \E invoice_data \in NormalizeInputs, tie_up \in BOOLEAN :
        call' = [op |-> "normalize_again",
                 first_invoice_data |-> call.invoice_data,
                 first_result |-> call.result,
                 invoice_data |-> invoice_data,
                 result |-> normalize_currency_data(invoice_data, tie_up)]
    /\ UNCHANGED <<EXCHANGE_RATES, batch, route>>

\* What the extractor is answered: a JSON object with or without each field.
Vendors == {"Acme Corp", " Euro GmbH ", "Rand Mining"}

Answers ==
    LET vendor_part == {EmptyDict} \cup {[vendor_name |-> v] : v \in Vendors}
        total_part ==
            {EmptyDict, [total_amount |-> NotANumber]}
            \cup {[total_amount |-> Number(a)] :
                     a \in {1234, 4600000, 4600010, 5000000, 5000010}}
        flagged_part == {EmptyDict} \cup {[flagged |-> f] : f \in BOOLEAN}
        items_part ==
            {EmptyDict,
             [line_items |-> <<>>],
             [line_items |-> <<[description |-> " Widget ", cost |-> Number(1234)],
                               [description |-> "Fee", cost |-> NotANumber],
                               [description |-> "Gift"]>>]}
    IN  {DictUpdate(DictUpdate(DictUpdate(DictUpdate(
             [invoice_number |-> "INV-7", invoice_date |-> "2024-03-01"],
             v), t), f), i) :
           v \in vendor_part, t \in total_part, f \in flagged_part,
           i \in items_part}

Answered(name, data) ==
    [path |-> "temp_uploads/" \o name, valid |-> TRUE, pages |-> 1,
     text |-> "INVOICE\n",
     response |-> [api_error |-> FALSE, json |-> TRUE, data |-> data]]

\* The files that make a step of the pipeline fail.
NotAPdf == [path |-> "temp_uploads/notes.pdf", valid |-> FALSE]
NoPages == [path |-> "temp_uploads/empty.pdf", valid |-> TRUE, pages |-> 0]
Scanned ==
    [path |-> "temp_uploads/scan.pdf", valid |-> TRUE, pages |-> 1,
     text |-> " \n"]
Unanswered ==
    [path |-> "temp_uploads/timeout.pdf", valid |-> TRUE, pages |-> 1,
     text |-> "INVOICE\n", response |-> [api_error |-> TRUE]]
NoJson ==
    [path |-> "temp_uploads/prose.pdf", valid |-> TRUE, pages |-> 1,
     text |-> "INVOICE\n", response |-> [api_error |-> FALSE, json |-> FALSE]]

Files ==
    {NotAPdf, NoPages, Scanned, Unanswered, NoJson}
        \cup {Answered("invoice.pdf", d) : d \in Answers}

\* The files of a batch.
BatchFiles ==
    {NotAPdf, Scanned, Unanswered,
     Answered("acme.pdf",
              [vendor_name |-> "Acme Corp", invoice_number |-> "INV-7",
               invoice_date |-> "2024-03-01",
               total_amount |-> Number(1234)]),
     Answered("euro.pdf",
              [vendor_name |-> " Euro GmbH ", invoice_number |-> "INV-8",
               invoice_date |-> "2024-03-02",
               total_amount |-> Number(4600010), flagged |-> FALSE])}

\* self._process_single_invoice(pdf_path), called on its own
CallProcessSingle ==
    /\ call.op = "idle"
    /\ outcome = NotCalled
    /\ \E file \in Files, tie_up \in BOOLEAN :
        call' = [op |-> "process_single", file |-> file,
                 result |-> process_single_invoice(file, tie_up)]
    /\ UNCHANGED <<EXCHANGE_RATES, batch, route>>

\* process_invoices(pdf_file_paths), lines 40-41
CallProcessInvoices ==
    /\ call.op = "idle"
    /\ outcome = NotCalled
    /\ \E n \in 0..MaxFiles : \E files \in [1..n -> BatchFiles] :
        pdf_file_paths' = files
    /\ position' = 1
    /\ batch_invoices' = <<>>
    /\ batch_errors' = <<>>
    /\ outcome' = Running
    /\ UNCHANGED <<route, EXCHANGE_RATES, call>>

\* An except clause that lets the exception out of the loop.
FileFailsAndStopsTheBatch ==
    /\ outcome = Running
    /\ position <= Len(pdf_file_paths)
    /\ \E tie_up \in BOOLEAN :
        LET file_path == pdf_file_paths[position]
            invoice == process_single_invoice(file_path, tie_up)
        IN  /\ ~invoice.ok
            /\ outcome' = Raised(invoice.error)
    /\ UNCHANGED <<route, EXCHANGE_RATES, call, pdf_file_paths, position,
                   batch_invoices, batch_errors>>

\* One turn of the loop, lines 44-48: the file is processed.
FileSucceeds ==
    /\ outcome = Running
    /\ position <= Len(pdf_file_paths)
    /\ \E tie_up \in BOOLEAN :
        LET file_path == pdf_file_paths[position]
            invoice == process_single_invoice(file_path, tie_up)
        IN  /\ invoice.ok
            /\ batch_invoices' = Append(batch_invoices, invoice.value)
    /\ position' = position + 1
    /\ UNCHANGED <<route, EXCHANGE_RATES, call, pdf_file_paths, batch_errors,
                   outcome>>

\* One turn of the loop, lines 49-52: _process_single_invoice raises.
FileFails ==
    /\ outcome = Running
    /\ position <= Len(pdf_file_paths)
    /\ \E tie_up \in BOOLEAN :
        LET file_path == pdf_file_paths[position]
            invoice == process_single_invoice(file_path, tie_up)
        IN  /\ ~invoice.ok
            /\ batch_errors' = Append(batch_errors,
                                "Error processing " \o basename(file_path.path)
                                    \o ": " \o invoice.error)
    /\ position' = position + 1
    /\ UNCHANGED <<route, EXCHANGE_RATES, call, pdf_file_paths, batch_invoices,
                   outcome>>

\* After the loop, lines 54-60.
FinishBatch ==
    /\ outcome = Running
    /\ position > Len(pdf_file_paths)
    /\ IF batch_invoices = <<>>
       THEN outcome' =
                Raised("No invoices could be processed from provided files")
       ELSE \E tie_up \in BOOLEAN :
            outcome' =
                Returned(batch_invoices,
                         DictSet(get_summary_data(batch_invoices, tie_up),
                                 "errors",
                                 IF batch_errors # <<>>
                                 THEN Some(batch_errors) ELSE None))
    /\ UNCHANGED <<route, EXCHANGE_RATES, call, pdf_file_paths, position,
                   batch_invoices, batch_errors>>

\* The caller of process_invoices takes what it returned or raised.
TakeOutcome ==
    /\ outcome.state \in {"returned", "raised"}
    /\ pdf_file_paths' = <<>>
    /\ position' = 1
    /\ batch_invoices' = <<>>
    /\ batch_errors' = <<>>
    /\ outcome' = NotCalled
    /\ UNCHANGED <<route, EXCHANGE_RATES, call>>

\* One turn of the loop of process_invoices (lines 44-52): the invoice to
\* append to invoices, or the message to append to errors.
turn(file_path, tie_up) ==
    LET invoice == process_single_invoice(file_path, tie_up)
    IN  IF invoice.ok THEN invoice
        ELSE Raise("Error processing " \o basename(file_path.path) \o ": "
                       \o invoice.error)

Appended(result) == result.ok
NotAppended(result) == ~result.ok

\* The turns of the loop of process_invoices over the files, in order.
turns_of(files, tie_up) == [i \in 1..Len(files) |-> turn(files[i], tie_up)]

\* process_invoices after its loop (lines 54-60), the lists invoices and
\* errors being those the turns appended to.
after_loop(turns, tie_up) ==
    LET good == SelectSeq(turns, Appended)
        bad == SelectSeq(turns, NotAppended)
        invoice_list == [k \in 1..Len(good) |-> good[k].value]
        error_list == [k \in 1..Len(bad) |-> bad[k].error]
    IN  IF invoice_list = <<>>
        THEN Raise("No invoices could be processed from provided files")
        ELSE Ok([invoices |-> invoice_list,
                 summary |->
                    DictSet(get_summary_data(invoice_list, tie_up), "errors",
                            IF error_list # <<>>
                            THEN Some(error_list) ELSE None)])

-----------------------------------------------------------------------------
(* routes/invoice_routes.py: POST /api/invoices/process.  The handler runs
   on the event loop: it gives way to the other requests at its one await,
   file.read() at line 53, after it has opened the temporary file, and
   nowhere else.  The directory is that of a POSIX system. *)

\* The bytes request r uploads under every name, a PDF of one invoice the
\* extractor answers for, and the bytes of a file just opened for writing.
Bytes(r) ==
    [valid |-> TRUE, pages |-> 1, text |-> "INVOICE\n",
     response |->
        [api_error |-> FALSE, json |-> TRUE,
         data |-> [vendor_name |-> IF r = 1 THEN "Acme Corp" ELSE "Euro GmbH",
                   invoice_number |-> "INV-7",
                   invoice_date |-> "2024-03-01",
                   total_amount |-> Number(1234)]]]
NoBytes == [valid |-> FALSE]
NoFile == [missing |-> TRUE]

\* What the pipeline finds at a path: the file there, or no file, which
\* validate_pdf answers False for.
Stored(directory, path) ==
    IF path \in DOMAIN directory
    THEN DictSet(directory[path].content, "path", path)
    ELSE [path |-> path, valid |-> FALSE]

\* A request that has not arrived, and one that is answered.
NotArrived == [state |-> "not arrived"]

\* s.endswith(suffix)
endswith(s, suffix) ==
    /\ Len(s) >= Len(suffix)
    /\ SubSeq(s, Len(s) - Len(suffix) + 1, Len(s)) = suffix

\* d without the key
DictDel(d, key) == [k \in DOMAIN d \ {key} |-> d[k]]

RECURSIVE cleanup_temp_files(_, _)
\* InvoiceProcessingService.cleanup_temp_files: the directory afterwards
cleanup_temp_files(directory, file_paths) ==
    IF file_paths = <<>> THEN directory
    ELSE cleanup_temp_files(
             IF Head(file_paths) \in DOMAIN directory
             THEN DictDel(directory, Head(file_paths)) ELSE directory,
             Tail(file_paths))

\* The answer to the client: the body returned, or the HTTPException that
\* leaves the handler.
Response(status, body) == [status |-> status, body |-> body]

\* The except clauses of the handler (lines 68-76) on an exception raised in
\* its try block; str() of an HTTPException is its status and its detail.
except(exception) ==
    IF exception.type = "ValueError"
    THEN Response(400, exception.message)
    ELSE Response(500, "Error processing invoices: "
                          \o (IF exception.type = "HTTPException"
                              THEN exception.status \o ": " \o exception.detail
                              ELSE exception.message))

\* The handler ends with this response: the finally clause runs (lines
\* 77-79).  left_behind is what is still at the paths of the request then.
finish(request, directory, response) ==
    LET cleaned ==
            IF request.service
            THEN cleanup_temp_files(directory, request.temp_file_paths)
            ELSE directory
    IN  [request |->
            [request EXCEPT
               !.state = "answered",
               !.response = response,
               !.left_behind =
                  {request.temp_file_paths[i] :
                     i \in 1..Len(request.temp_file_paths)}
                      \cap DOMAIN cleaned],
         temp_uploads |-> cleaned]

\* The handler of r ends with a response.
Answer(r, request, directory, response) ==
    LET after == finish(request, directory, response)
    IN  /\ requests' = [requests EXCEPT ![r] = after.request]
        /\ temp_uploads' = after.temp_uploads

\* After the loop (lines 58-66): the batch is processed and answered.
\* processed is what is at each path when process_invoices is called.
ProcessAndAnswer(r, request, directory, tie_up) ==
    \E files \in {[i \in 1..Len(request.temp_file_paths) |->
                     Stored(directory, request.temp_file_paths[i])]} :
    \E turns \in {turns_of(files, tie_up)} :
    \E result \in {after_loop(turns, tie_up)} :
    \E processed \in
          {[request EXCEPT
              !.processed =
                 [i \in 1..Len(files) |->
                    IF files[i].path \in DOMAIN directory
                    THEN directory[files[i].path].content
                    ELSE NoFile]]} :
        IF result.ok
        THEN Answer(r, processed, directory, Response(200, result.value))
        ELSE Answer(r, processed, directory,
                    except([type |-> "ValueError", message |-> result.error]))

\* One turn of the loop up to the await (lines 43-53): the name of the file
\* is checked and the file opened for writing, which makes it or empties it.
CheckAndOpen(r, request, directory) ==
    LET filename == request.files[request.next]
        temp_path == "temp_uploads/" \o filename
        inode == IF temp_path \in DOMAIN directory
                 THEN directory[temp_path].inode
                 ELSE <<r, request.next>>
    IN  IF ~endswith(lower(filename), ".pdf")
        THEN Answer(r, request, directory,
                    except([type |-> "HTTPException", status |-> "400",
                            detail |-> "File " \o filename
                                          \o " is not a PDF"]))
        ELSE /\ requests' =
                   [requests EXCEPT
                      ![r] = [request EXCEPT !.state = "reading",
                                             !.inode = inode]]
             /\ temp_uploads' =
                   DictSet(directory, temp_path,
                           [inode |-> inode, content |-> NoBytes])

\* The handler from the top of the loop at line 42 to its next await or to
\* its end.
Run(r, request, directory, tie_up) ==
    IF request.next > Len(request.files)
    THEN ProcessAndAnswer(r, request, directory, tie_up)
    ELSE CheckAndOpen(r, request, directory)

UploadLists == UNION {[1..n -> UploadNames] : n \in 0..MaxUploads}

\* A request arrives and its handler runs to its first await or to its end
\* (lines 33-53).
Post(r) ==
    /\ requests[r] = NotArrived
    /\ \E files \in UploadLists, api_key \in BOOLEAN, tie_up \in BOOLEAN :
       \E request \in
             {[state |-> "running", files |-> files, service |-> api_key,
               next |-> 1, inode |-> <<>>, temp_file_paths |-> <<>>,
               processed |-> <<>>, left_behind |-> {},
               response |-> Response(0, "")]} :
          IF files = <<>>
          THEN /\ requests' =
                     [requests EXCEPT
                        ![r] = [request EXCEPT
                                  !.state = "answered",
                                  !.response =
                                     Response(400, "No files provided")]]
               /\ UNCHANGED temp_uploads
          ELSE IF ~api_key
          THEN Answer(r, request, temp_uploads,
                      except([type |-> "HTTPException", status |-> "500",
                              detail |-> "OPENAI_API_KEY not configured"]))
          ELSE Run(r, request, temp_uploads, tie_up)
    /\ UNCHANGED <<EXCHANGE_RATES, call, batch>>

\* file.read() returns to the handler of r, which writes the content, closes
\* the file (lines 53-56) and runs to its next await or to its end.  What is
\* written to a file that was removed meanwhile is in no directory.
Resume(r) ==
    /\ requests[r].state = "reading"
    /\ \E tie_up \in BOOLEAN :
       \E temp_path \in
             {"temp_uploads/" \o requests[r].files[requests[r].next]} :
       \E written \in
             {IF temp_path \in DOMAIN temp_uploads
                    /\ temp_uploads[temp_path].inode = requests[r].inode
              THEN [temp_uploads EXCEPT ![temp_path].content = Bytes(r)]
              ELSE temp_uploads} :
       \E request \in
             {[requests[r] EXCEPT
                 !.state = "running",
                 !.temp_file_paths = Append(@, temp_path),
                 !.next = @ + 1]} :
          Run(r, request, written, tie_up)
    /\ UNCHANGED <<EXCHANGE_RATES, call, batch>>

\* The caller drops the result.
Return ==
    /\ call.op # "idle"
    /\ call' = Idle
    /\ UNCHANGED <<EXCHANGE_RATES, batch, route>>

Init ==
    /\ EXCHANGE_RATES = BaselineRates
    /\ call = Idle
    /\ pdf_file_paths = <<>>
    /\ position = 1
    /\ batch_invoices = <<>>
    /\ batch_errors = <<>>
    /\ outcome = NotCalled
    /\ temp_uploads = EmptyDict
    /\ requests = [r \in Requests |-> NotArrived]

NextRates ==
    \/ UpdateRates
    \/ CallConvert
    \/ CallConvertBack
    \/ CallSymbol
    \/ Return

SpecRates == Init /\ [][NextRates]_vars

NextDetect ==
    \/ CallDetect
    \/ Return

SpecDetect == Init /\ [][NextDetect]_vars

NextSummary ==
    \/ CallSummary
    \/ Return

SpecSummary == Init /\ [][NextSummary]_vars

NextNormalize ==
    \/ CallNormalize
    \/ CallNormalizeAgain
    \/ Return

SpecNormalize == Init /\ [][NextNormalize]_vars

NextNormalizeRates ==
    \/ UpdateRates
    \/ CallNormalize
    \/ Return

SpecNormalizeRates == Init /\ [][NextNormalizeRates]_vars

NextRoute == \E r \in Requests : Post(r) \/ Resume(r)

SpecRoute == Init /\ [][NextRoute]_vars

NextService ==
    \/ CallProcessSingle
    \/ Return
    \/ CallProcessInvoices
    \/ FileSucceeds
    \/ FileFails
    \/ FinishBatch
    \/ TakeOutcome

SpecService == Init /\ [][NextService]_vars

-----------------------------------------------------------------------------
(* The claims about the converter and the rate table (under SpecRates) *)

Abs(x) == IF x < 0 THEN -x ELSE x

Registered(code) == code \in DOMAIN EXCHANGE_RATES

\* The rate convert_currency divides by for a source code, and multiplies by
\* for a target code.
SourceRate(code) == IF code # "USD" THEN EXCHANGE_RATES[code] ELSE 100
TargetRate(code) == EXCHANGE_RATES[code]

IsRoundTrip ==
    /\ call.op = "roundtrip"
    /\ Registered(call.from_currency) /\ Registered(call.to_currency)
    /\ call.amount > 0

\* C4 as stated, for the rate table as shipped: for registered codes c1, c2
\* and an amount a > 0, converting a from c1 to c2 and the result back gives
\* a value within 0.02 of a.
C4_RoundTripWithin2Cents ==
    (IsRoundTrip /\ EXCHANGE_RATES = BaselineRates)
        => Abs(call.result - call.amount) <= 20

\* C4 amended: the round trip of a > 0 over registered codes c1, c2 returns a
\* itself when c1 = c2, and otherwise a value within
\* 0.005 * (1 + rate(c1) / rate(c2)) of a * u, where rate(c1) is the rate the
\* way back multiplies by, rate(c2) the rate it divides by, and u is the rate
\* stored for USD when c1 or c2 is USD and 1 otherwise; so it is within 0.02
\* of a when u = 1 and rate(c1) <= 3 * rate(c2).
C4_RoundTripTolerance ==
    IsRoundTrip =>
        LET c1 == call.from_currency
            c2 == call.to_currency
            u  == IF c1 = "USD" \/ c2 = "USD" THEN EXCHANGE_RATES["USD"] ELSE 100
        IN  IF c1 = c2 THEN call.result = call.amount
            ELSE /\ Abs(100 * call.result - call.amount * u)
                        <= 500 + (500 * TargetRate(c1)) \div SourceRate(c2)
                 /\ (u = 100 /\ TargetRate(c1) <= 3 * SourceRate(c2))
                        => Abs(call.result - call.amount) <= 20

\* 1.00 JPY is 0.01 USD, which is 1.49 or 1.50 JPY (1.495 is a tie).
C4_Witness ==
    /\ IsRoundTrip
    /\ call.from_currency = "JPY" /\ call.to_currency = "USD"
    /\ call.amount = 1000 /\ call.there = 10
    /\ call.result \in {1490, 1500}

\* The registered spelling of a code written in any case.
Canonical(code) ==
    IF upper(code) \in DOMAIN BaselineRates THEN upper(code) ELSE code

LowerCase(code) == code # upper(code) /\ upper(code) \in DOMAIN BaselineRates

\* C5 as stated, for the rate table as shipped: a registered code in lower
\* case gives what the code in upper case gives, in convert_currency and in
\* get_currency_symbol.
C5_CaseInsensitive ==
    /\ (call.op = "convert" /\ EXCHANGE_RATES = BaselineRates) =>
          \E tie_up \in BOOLEAN :
              call.result = convert_currency(call.amount,
                                Canonical(call.from_currency),
                                Canonical(call.to_currency), tie_up)
    /\ call.op = "symbol" =>
          call.result = get_currency_symbol(Canonical(call.currency_code))

\* C5 amended: codes are matched exactly as written.  A registered code in
\* lower case is an unknown code: convert_currency returns the amount
\* unchanged when the source or the target is one, and get_currency_symbol
\* returns the lower-case code itself, which is not the symbol of the code.
C5_CaseSensitive ==
    /\ (/\ call.op = "convert"
        /\ LowerCase(call.from_currency) \/ LowerCase(call.to_currency))
          => call.result = call.amount
    /\ (call.op = "symbol" /\ LowerCase(call.currency_code))
          => /\ call.result = call.currency_code
             /\ call.result # get_currency_symbol(upper(call.currency_code))

\* convert_currency(0.25, 'eur', 'USD') is 0.25, not the 0.27 of 'EUR'.
C5_Witness ==
    /\ call.op = "convert"
    /\ call.from_currency = "eur" /\ call.to_currency = "USD"
    /\ call.amount = 250 /\ call.result = 250
    /\ convert_currency(250, "EUR", "USD", TRUE) = 270

\* C6 as stated: in every reachable state the rate stored for USD is 1.0, so
\* a conversion from a registered code into USD is amount / rate(from),
\* rounded.
C6_UsdRateIsOne ==
    /\ EXCHANGE_RATES["USD"] = 100
    /\ (/\ call.op = "convert"
        /\ call.to_currency = "USD" /\ call.from_currency # "USD"
        /\ Registered(call.from_currency))
          => \E tie_up \in BOOLEAN :
                call.result = round2(call.amount * 100,
                                     EXCHANGE_RATES[call.from_currency], tie_up)

\* C10: convert_currency returns the amount it was given whenever the source
\* or the target code has no entry in the rate table.
C10_UnknownRateReturnsAmount ==
    (/\ call.op = "convert"
     /\ ~Registered(call.from_currency) \/ ~Registered(call.to_currency))
        => call.result = call.amount

\* convert(1.234, 'XXX', 'USD') = 1.234 and convert(-1.00, 'USD', 'XXX') = -1.00
C10_Witness ==
    /\ call.op = "convert"
    /\ ~Registered("XXX")
    /\ \/ /\ call.from_currency = "XXX" /\ call.to_currency = "USD"
          /\ call.amount = 1234 /\ call.result = 1234
       \/ /\ call.from_currency = "USD" /\ call.to_currency = "XXX"
          /\ call.amount = -1000 /\ call.result = -1000

\* C11: convert_currency(a, c, c) returns a itself, unrounded, for every
\* amount a and every code c, in the rate table or not, whatever the rates are.
C11_SameCodeReturnsAmount ==
    (call.op = "convert" /\ call.from_currency = call.to_currency)
        => call.result = call.amount

\* convert(1.234, 'EUR', 'EUR') = 1.234 and convert(1.234, 'XXX', 'XXX') = 1.234
\* were called, after a change of the rate of EUR or before any.
C11_Witness ==
    /\ call.op = "convert"
    /\ call.amount = 1234 /\ call.result = 1234
    /\ call.from_currency = call.to_currency
    /\ \/ call.from_currency = "EUR" /\ EXCHANGE_RATES["EUR"] = 200
       \/ call.from_currency = "XXX" /\ ~Registered("XXX")

-----------------------------------------------------------------------------
(* The claims about the detector (under SpecDetect) *)

\* The tiers of detect_currency on a non-empty text, each as a first match
\* in its table's order.
PatternHit(text, i) == re_search(CURRENCY_PATTERNS[i].key, text)
NameHit(text, i)    == Contains(lower(text), CURRENCY_NAMES[i].key)
SymbolHit(text, i)  == Contains(text, CURRENCY_SYMBOLS[i].key)

IsFirst(i, Hit(_)) == Hit(i) /\ \A j \in 1..(i - 1) : ~Hit(j)

TierResult(text, result) ==
    LET P(i) == PatternHit(text, i)
        N(i) == NameHit(text, i)
        S(i) == SymbolHit(text, i)
        anyP == \E i \in 1..Len(CURRENCY_PATTERNS) : P(i)
        anyN == \E i \in 1..Len(CURRENCY_NAMES) : N(i)
        anyS == \E i \in 1..Len(CURRENCY_SYMBOLS) : S(i)
    IN  IF text = "" THEN result = Detected("USD", 50)
        ELSE IF anyP
        THEN \E i \in 1..Len(CURRENCY_PATTERNS) :
                IsFirst(i, P) /\ result = Detected(CURRENCY_PATTERNS[i].value, 90)
        ELSE IF anyN
        THEN \E i \in 1..Len(CURRENCY_NAMES) :
                IsFirst(i, N) /\ result = Detected(CURRENCY_NAMES[i].value, 85)
        ELSE IF anyS
        THEN \E i \in 1..Len(CURRENCY_SYMBOLS) :
                IsFirst(i, S) /\ result = Detected(CURRENCY_SYMBOLS[i].value, 88)
        ELSE result = Detected("USD", 50)

\* Every result the tables allow.
PossibleResults ==
    {Detected(CURRENCY_PATTERNS[i].value, 90) : i \in 1..Len(CURRENCY_PATTERNS)}
    \cup {Detected(CURRENCY_NAMES[i].value, 85) : i \in 1..Len(CURRENCY_NAMES)}
    \cup {Detected(CURRENCY_SYMBOLS[i].value, 88) : i \in 1..Len(CURRENCY_SYMBOLS)}
    \cup {Detected("USD", 50)}

\* Some "$" of the text is at its end or before a character that is no
\* whitespace.
HasDollarNotBeforeSpace(text) ==
    \E i \in 1..Len(text) :
        /\ SubSeq(text, i, i) = "$"
        /\ i = Len(text) \/ SubSeq(text, i + 1, i + 1) \notin Whitespace

\* C3 as stated: the result is that of the first tier with a match and of the
\* first matching entry in it, no other result is possible, and a text that
\* holds both a "$" and the word "Euro" yields USD (with confidence 0.9).
C3_FirstMatchDollarBeatsEuro ==
    call.op = "detect" =>
        /\ TierResult(call.text, call.result)
        /\ call.result \in PossibleResults
        /\ (Contains(call.text, "$") /\ Contains(call.text, "Euro"))
              => call.result = Detected("USD", 90)

\* C3 amended: the result is that of the first tier with a match and of the
\* first matching entry in it, and no other result is possible; a text that
\* holds the word "Euro" yields USD (0.9) when it holds a "$" that is not
\* followed by whitespace, and EUR (0.9) when each of its "$" is followed by
\* whitespace and it holds neither "USD" nor "US$" in any case.
C3_FirstMatchInTierOrder ==
    call.op = "detect" =>
        /\ TierResult(call.text, call.result)
        /\ call.result \in PossibleResults
        /\ Contains(call.text, "Euro") =>
              IF HasDollarNotBeforeSpace(call.text)
              THEN call.result = Detected("USD", 90)
              ELSE \/ Contains(lower(call.text), "usd")
                   \/ Contains(lower(call.text), "us$")
                   \/ call.result = Detected("EUR", 90)

\* detect_currency("$ Euro") is ('EUR', 0.9): the "$" before a blank is no
\* match of the USD pattern.
C3_Witness ==
    /\ call.op = "detect"
    /\ call.text = "$ Euro"
    /\ call.result = Detected("EUR", 90)

-----------------------------------------------------------------------------
(* The claims about the summarizer (under SpecSummary) *)

CurrencyOf(invoice) == Get(invoice, "currency", "USD")
TotalOf(invoice)    == Get(invoice, "total_amount", 0)

\* The places of the batch whose invoice has currency c.
PlacesOf(invoices, c) ==
    {i \in 1..Len(invoices) : CurrencyOf(invoices[i]) = c}

RECURSIVE SumOf(_)
\* The sum of the values of the function f.
SumOf(f) ==
    IF DOMAIN f = {} THEN 0
    ELSE LET x == CHOOSE y \in DOMAIN f : TRUE
         IN  f[x] + SumOf([y \in DOMAIN f \ {x} |-> f[y]])

\* The sum of the raw totals of the invoices of currency c.
RawTotal(invoices, c) ==
    SumOf([i \in PlacesOf(invoices, c) |-> TotalOf(invoices[i])])

Present(invoices) == {CurrencyOf(invoices[i]) : i \in 1..Len(invoices)}

SeqRange(q) == {q[i] : i \in 1..Len(q)}

\* C7 as stated: the summary of an empty batch holds the fields of the
\* summary of a non-empty batch, all zero or empty: total_by_currency,
\* total_in_usd, currency_breakdown and currencies_detected.
C7_EmptySummaryHasEveryField ==
    (call.op = "summary" /\ call.invoices = <<>>) =>
        /\ DOMAIN call.result = {"total_by_currency", "total_in_usd",
                                 "currency_breakdown", "currencies_detected"}
        /\ DOMAIN call.result.total_by_currency = {}
        /\ call.result.total_in_usd = 0
        /\ DOMAIN call.result.currency_breakdown = {}
        /\ call.result.currencies_detected = <<>>

\* What C8 says of every field but total_by_currency's values: the three
\* collections hold the currencies present, each once; per currency, the
\* breakdown's total is the sum of the raw totals, its count the number of
\* invoices (at least 1) and its average total / count rounded to 2
\* decimals; the counts add up to the size of the batch.
GroupedByCurrency(invoices, result, tie_up) ==
    LET present == Present(invoices)
    IN  /\ DOMAIN result.total_by_currency = present
        /\ DOMAIN result.currency_breakdown = present
        /\ SeqRange(result.currencies_detected) = present
        /\ Len(result.currencies_detected) = Cardinality(present)
        /\ \A c \in present :
              LET entry == result.currency_breakdown[c]
              IN  /\ entry.total = RawTotal(invoices, c)
                  /\ entry.count = Cardinality(PlacesOf(invoices, c))
                  /\ entry.count >= 1
                  /\ entry.average = round2(entry.total, entry.count, tie_up)
        /\ SumOf([c \in present |-> result.currency_breakdown[c].count])
              = Len(invoices)

\* C8 as stated: for a non-empty batch the summary is grouped by currency
\* and total_by_currency[c] equals the sum of the raw totals of the invoices
\* of currency c.
C8_TotalByCurrencyIsRawSum ==
    (call.op = "summary" /\ call.invoices # <<>>) =>
        /\ GroupedByCurrency(call.invoices, call.result, call.tie_up)
        /\ \A c \in Present(call.invoices) :
              call.result.total_by_currency[c] = RawTotal(call.invoices, c)

\* C8 amended: for a non-empty batch the summary is grouped by currency,
\* currency_breakdown[c].total equals the sum of the raw totals of the
\* invoices of currency c, and total_by_currency[c] equals that sum rounded
\* to 2 decimals.
C8_TotalByCurrencyIsRoundedSum ==
    (call.op = "summary" /\ call.invoices # <<>>) =>
        /\ GroupedByCurrency(call.invoices, call.result, call.tie_up)
        /\ \A c \in Present(call.invoices) :
              call.result.total_by_currency[c]
                  = round2(RawTotal(call.invoices, c), 1, call.tie_up)

\* [{total 1.00}, {EUR, 0.005}]: the invoice without a currency counts as
\* USD; EUR's total is 0.005 in the breakdown and 0.00 or 0.01 in
\* total_by_currency.
C8_Witness ==
    /\ call.op = "summary"
    /\ call.invoices = <<[total_amount |-> 1000],
                         [currency |-> "EUR", total_amount |-> 1234]>>
    /\ call.result.currencies_detected = <<"USD", "EUR">>
    /\ call.result.currency_breakdown["EUR"].total = 1234
    /\ call.result.total_by_currency["EUR"] = 1230
    /\ call.result.total_by_currency["USD"] = 1000

\* C9: total_in_usd is the sum over the currencies present of
\* convert_currency(sum of the raw totals of the currency, the currency,
\* 'USD'), rounded to 2 decimals; for [{USD, 6000}, {EUR, 100}] it is
\* 6000 + convert(100, EUR, USD), with total_by_currency {USD: 6000, EUR: 100}.
C9_UsdTotalConvertsEachCurrencyOnce ==
    call.op = "summary" /\ call.invoices # <<>> =>
        LET usd == [c \in Present(call.invoices) |->
                      convert_currency(RawTotal(call.invoices, c), c, "USD",
                                       call.tie_up)]
        IN  /\ call.result.total_in_usd = round2(SumOf(usd), 1, call.tie_up)
            /\ call.invoices = <<[currency |-> "USD", total_amount |-> 6000000],
                                 [currency |-> "EUR", total_amount |-> 100000]>>
                  => /\ call.result.total_in_usd
                          = 6000000 + convert_currency(100000, "EUR", "USD",
                                                       call.tie_up)
                     /\ call.result.total_by_currency
                          = [USD |-> 6000000, EUR |-> 100000]

\* Two EUR invoices of 1.00: 2.00 EUR is 2.17 USD, while 1.09 + 1.09 is 2.18.
C9_Witness ==
    /\ call.op = "summary"
    /\ call.invoices = <<[currency |-> "EUR", total_amount |-> 1000],
                         [currency |-> "EUR", total_amount |-> 1000]>>
    /\ convert_currency(1000, "EUR", "USD", call.tie_up) = 1090
    /\ call.result.total_in_usd = 2170

-----------------------------------------------------------------------------
(* The claims about the pipeline and the batch (under SpecService) *)

\* The USD-equivalent total of an invoice: total_amount_usd, or the raw
\* total_amount when there is none, or 0 when there is neither.
UsdEquivalent(invoice) ==
    IF "total_amount_usd" \in DOMAIN invoice THEN invoice.total_amount_usd
    ELSE IF "total_amount" \in DOMAIN invoice THEN invoice.total_amount
    ELSE 0

FlaggedIffAbove5000(invoice) ==
    /\ "flagged" \in DOMAIN invoice
    /\ invoice.flagged <=> (UsdEquivalent(invoice) > 5000 * 1000)

\* C1: every invoice that _process_single_invoice returns, on its own or to
\* the loop of process_invoices, has flagged true iff its USD-equivalent total
\* is strictly greater than 5000.0, whatever flagged the extractor supplied.
C1_FlaggedIffUsdTotalAbove5000 ==
    /\ call.op = "process_single" /\ call.result.ok
            => FlaggedIffAbove5000(call.result.value)
    /\ \A i \in 1..Len(batch_invoices) : FlaggedIffAbove5000(batch_invoices[i])
    /\ outcome.state = "returned"
            => \A i \in 1..Len(outcome.invoices) :
                    FlaggedIffAbove5000(outcome.invoices[i])

\* An invoice of 4600.00 EUR, which the extractor says is flagged, is
\* exactly 5000.00 USD and comes back not flagged.
C1_Witness ==
    /\ call.op = "process_single"
    /\ call.result.ok
    /\ "flagged" \in DOMAIN call.file.response.data
    /\ call.file.response.data.flagged
    /\ call.result.value.currency = "EUR"
    /\ call.result.value.total_amount = 4600 * 1000
    /\ call.result.value.total_amount_usd = 5000 * 1000
    /\ ~call.result.value.flagged

\* Whether _process_single_invoice returns for the file (the direction of a
\* rounding tie changes what it returns, never whether it does).
Succeeds(file) == process_single_invoice(file, TRUE).ok
Fails(file) == ~Succeeds(file)

\* C2: when process_invoices ends, it raises iff no file of its list
\* succeeds (the empty list included); otherwise it returns the invoices of
\* the files that succeed, in the order of the list, and one message for each
\* file that fails, in the order of the list, naming the file: a failure
\* stops nothing, and invoices + messages = files.
C2_BatchKeepsGoingAfterAFailure ==
    outcome.state \in {"returned", "raised"} =>
        LET good == SelectSeq(pdf_file_paths, Succeeds)
            bad  == SelectSeq(pdf_file_paths, Fails)
        IN  /\ outcome.state = "raised" <=> good = <<>>
            /\ outcome.state = "raised" =>
                    outcome.error =
                        "No invoices could be processed from provided files"
            /\ outcome.state = "returned" =>
                /\ Len(outcome.invoices) = Len(good)
                /\ \A k \in 1..Len(good) :
                        \E tie_up \in BOOLEAN :
                            outcome.invoices[k] =
                                process_single_invoice(good[k], tie_up).value
                /\ LET messages ==
                            IF outcome.summary.errors.none THEN <<>>
                            ELSE outcome.summary.errors.value
                   IN  /\ Len(messages) = Len(bad)
                       /\ Len(outcome.invoices) + Len(messages)
                              = Len(pdf_file_paths)
                       /\ \A k \in 1..Len(bad) :
                              messages[k] =
                                  "Error processing "
                                      \o basename(bad[k].path) \o ": "
                                      \o process_single_invoice(bad[k],
                                                                TRUE).error

\* A batch whose first and last files fail and whose second succeeds returns
\* the one invoice and the two messages.
C2_Witness ==
    /\ outcome.state = "returned"
    /\ Len(pdf_file_paths) = 3
    /\ pdf_file_paths[1] = NotAPdf
    /\ Succeeds(pdf_file_paths[2])
    /\ pdf_file_paths[3] = Unanswered
    /\ Len(outcome.invoices) = 1
    /\ outcome.invoices[1].vendor_name = "Euro GmbH"
    /\ outcome.summary.errors =
           Some(<<"Error processing notes.pdf: Invalid PDF file: temp_uploads/notes.pdf",
                  "Error processing timeout.pdf: Connection error.">>)

-----------------------------------------------------------------------------
(* The claims about the normalizer (under SpecNormalize) *)

NormalizeCalled == call.op \in {"normalize", "normalize_again"}

\* The record after holds key with the value the record before has for it.
Kept(key, before, after) ==
    key \in DOMAIN before =>
        key \in DOMAIN after /\ after[key] = before[key]

\* key is in the record after iff it is in the record before, with the
\* same value.
Untouched(key, before, after) ==
    /\ key \in DOMAIN after <=> key \in DOMAIN before
    /\ Kept(key, before, after)

\* C12: normalize_currency_data keeps every key of the record it is given,
\* leaves vendor_name, invoice_number, invoice_date and total_amount as they
\* are, and keeps every line item in its place with every key it had and its
\* description and cost as they are (an item of cost 0.00 included).
C12_NormalizeOnlyAddsFields ==
    NormalizeCalled =>
        LET given == call.invoice_data
            got == call.result
        IN  /\ DOMAIN given \subseteq DOMAIN got
            /\ \A key \in {"vendor_name", "invoice_number", "invoice_date",
                            "total_amount"} : Kept(key, given, got)
            /\ "line_items" \in DOMAIN given =>
                /\ Len(got.line_items) = Len(given.line_items)
                /\ \A i \in 1..Len(given.line_items) :
                      /\ DOMAIN given.line_items[i]
                            \subseteq DOMAIN got.line_items[i]
                      /\ Kept("description", given.line_items[i],
                              got.line_items[i])
                      /\ Kept("cost", given.line_items[i], got.line_items[i])

\* A record of a vendor in euros with three line items, the first of cost
\* 0.00, comes back with the three items, the first still of cost 0.00 and
\* the third still of cost 1.234, now 1.34 in USD.
C12_Witness ==
    /\ call.op = "normalize"
    /\ "line_items" \in DOMAIN call.invoice_data
    /\ Len(call.invoice_data.line_items) = 3
    /\ call.invoice_data.line_items[1].cost = 0
    /\ call.result.currency = "EUR"
    /\ Len(call.result.line_items) = 3
    /\ call.result.line_items[1].cost = 0
    /\ call.result.line_items[1].cost_usd = 0
    /\ call.result.line_items[3].cost = 1234
    /\ call.result.line_items[3].cost_usd = 1340

\* C13: normalize_currency_data returns for every record, whichever of
\* vendor_name, invoice_number, invoice_date, total_amount, line_items and
\* the cost of an item are absent; what it returns holds currency,
\* currency_confidence and currency_symbol; total_amount_formatted and
\* total_amount_usd are written iff total_amount is there, and cost_formatted
\* and cost_usd of an item iff the item has a cost (a key that is not
\* written is as it was).
C13_NormalizeSetsFieldsIffPresent ==
    NormalizeCalled =>
        LET given == call.invoice_data
            got == call.result
        IN  /\ {"currency", "currency_confidence", "currency_symbol"}
                  \subseteq DOMAIN got
            /\ got.currency_symbol = get_currency_symbol(got.currency)
            /\ IF "total_amount" \in DOMAIN given
               THEN /\ "total_amount_formatted" \in DOMAIN got
                    /\ "total_amount_usd" \in DOMAIN got
                    /\ \E tie_up \in BOOLEAN :
                          got.total_amount_usd =
                              convert_currency(given.total_amount,
                                               got.currency, "USD", tie_up)
               ELSE /\ Untouched("total_amount_formatted", given, got)
                    /\ Untouched("total_amount_usd", given, got)
            /\ "line_items" \in DOMAIN given =>
                /\ Len(got.line_items) = Len(given.line_items)
                /\ \A i \in 1..Len(given.line_items) :
                      LET item == given.line_items[i]
                          item_got == got.line_items[i]
                      IN  IF "cost" \in DOMAIN item
                          THEN /\ "cost_formatted" \in DOMAIN item_got
                               /\ "cost_usd" \in DOMAIN item_got
                          ELSE /\ Untouched("cost_formatted", item, item_got)
                               /\ Untouched("cost_usd", item, item_got)
            /\ "line_items" \notin DOMAIN given
                  => "line_items" \notin DOMAIN got

\* A record with nothing but line items, the second without a cost, comes
\* back in USD at confidence 0.5, with no total in USD, no cost in USD on the
\* second item and one on the third.
C13_Witness ==
    /\ call.op = "normalize"
    /\ DOMAIN call.invoice_data = {"line_items"}
    /\ Len(call.invoice_data.line_items) = 3
    /\ "cost" \notin DOMAIN call.invoice_data.line_items[2]
    /\ call.result.currency = "USD"
    /\ call.result.currency_confidence = 50
    /\ call.result.currency_symbol = "$"
    /\ "total_amount_usd" \notin DOMAIN call.result
    /\ "total_amount_formatted" \notin DOMAIN call.result
    /\ "cost_usd" \notin DOMAIN call.result.line_items[2]
    /\ call.result.line_items[3].cost_usd = 1234

\* The two records hold the same value for key, or neither holds one.
AgreeOn(key, a, b) ==
    /\ key \in DOMAIN a <=> key \in DOMAIN b
    /\ key \in DOMAIN a => a[key] = b[key]

\* C14: two records that agree on vendor_name, invoice_number and
\* invoice_date come back with the same currency, currency_confidence and
\* currency_symbol, whatever their totals, line items and other keys.
C14_CurrencyDependsOnThreeFields ==
    (/\ call.op = "normalize_again"
     /\ \A key \in {"vendor_name", "invoice_number", "invoice_date"} :
            AgreeOn(key, call.first_invoice_data, call.invoice_data))
        => /\ call.result.currency = call.first_result.currency
           /\ call.result.currency_confidence
                 = call.first_result.currency_confidence
           /\ call.result.currency_symbol = call.first_result.currency_symbol

\* A record numbered CAD-7 with a total and line items that name pounds and
\* yen, and a record numbered CAD-7 with neither, both come back in CAD.
C14_Witness ==
    /\ call.op = "normalize_again"
    /\ call.first_invoice_data =
          [invoice_number |-> "CAD-7", total_amount |-> 1234,
           line_items |-> <<[description |-> "Gift", cost |-> 0],
                            [description |-> "£ duty"],
                            [description |-> "Yen fee", cost |-> 1234]>>]
    /\ call.invoice_data = [invoice_number |-> "CAD-7"]
    /\ call.first_result.currency = "CAD"
    /\ call.result.currency = "CAD"
    /\ call.result.currency_confidence = 90
    /\ call.first_result.currency_confidence = 90

-----------------------------------------------------------------------------
(* The claim about the codes and the rate table (under SpecNormalizeRates) *)

\* The codes detect_currency can return.
DetectableCodes ==
    {CURRENCY_PATTERNS[i].value : i \in 1..Len(CURRENCY_PATTERNS)}
        \cup {CURRENCY_NAMES[i].value : i \in 1..Len(CURRENCY_NAMES)}
        \cup {CURRENCY_SYMBOLS[i].value : i \in 1..Len(CURRENCY_SYMBOLS)}
        \cup {"USD"}

\* amount is in USD already, or is converted with the rates of the table.
ConvertedWithRates(amount, code, usd) ==
    IF code = "USD" THEN usd = amount
    ELSE \E tie_up \in BOOLEAN :
            usd = round2(amount * EXCHANGE_RATES["USD"],
                         EXCHANGE_RATES[code], tie_up)

\* C17: whatever update_exchange_rates was called with, every code that
\* detect_currency can return has a rate in the table, and the
\* total_amount_usd and cost_usd that normalize_currency_data stores are the
\* amounts themselves for USD and conversions with the rates of the table
\* otherwise.
C17_DetectableCodesHaveRates ==
    /\ DetectableCodes \subseteq DOMAIN EXCHANGE_RATES
    /\ call.op = "normalize" =>
        LET given == call.invoice_data
            got == call.result
        IN  /\ got.currency \in DetectableCodes
            /\ "total_amount" \in DOMAIN given =>
                  ConvertedWithRates(given.total_amount, got.currency,
                                     got.total_amount_usd)
            /\ "line_items" \in DOMAIN given =>
                  \A i \in 1..Len(given.line_items) :
                     "cost" \in DOMAIN given.line_items[i] =>
                        ConvertedWithRates(given.line_items[i].cost,
                                           got.currency,
                                           got.line_items[i].cost_usd)

\* After updates that add the code XXX and set the rate of EUR to 2.00, a
\* total of 1.234 EUR is stored as 0.62 USD.
C17_Witness ==
    /\ "XXX" \in DOMAIN EXCHANGE_RATES
    /\ EXCHANGE_RATES["EUR"] = 200
    /\ EXCHANGE_RATES["USD"] = 100
    /\ call.op = "normalize"
    /\ call.result.currency = "EUR"
    /\ "total_amount" \in DOMAIN call.invoice_data
    /\ call.invoice_data.total_amount = 1234
    /\ call.result.total_amount_usd = 620

-----------------------------------------------------------------------------
(* The claims about POST /api/invoices/process (under SpecRoute) *)

Answered400NotAPdf(request) ==
    /\ request.response.status = 400
    /\ \E i \in 1..Len(request.files) :
          /\ ~endswith(lower(request.files[i]), ".pdf")
          /\ request.response.body
                = "File " \o request.files[i] \o " is not a PDF"

\* C15 as stated: a request with a file whose name does not end in .pdf (the
\* API key being configured) is answered 400 with the detail
\* 'File <name> is not a PDF', and the HTTP error 500 that
\* get_invoice_service raises without an API key is answered 500.
C15_NonPdfUploadAnswered400 ==
    \A r \in Requests :
        requests[r].state = "answered" /\ requests[r].files # <<>> =>
            /\ ~requests[r].service => requests[r].response.status = 500
            /\ (/\ requests[r].service
                /\ \E i \in 1..Len(requests[r].files) :
                      ~endswith(lower(requests[r].files[i]), ".pdf"))
                  => Answered400NotAPdf(requests[r])

\* C16 as stated: whatever the two requests upload and however their
\* handlers take turns at the await, what process_invoices finds at each
\* path of a request is the bytes that request uploaded, and when the request
\* is answered nothing is left at any path it wrote.
C16_RequestsDoNotInterfere ==
    \A r \in Requests :
        requests[r].state = "answered" =>
            /\ \A i \in 1..Len(requests[r].processed) :
                  requests[r].processed[i] = Bytes(r)
            /\ requests[r].left_behind = {}

=============================================================================
